---- MODULE Spec2Model ----
(***************************************************************************)
(* Grade Bot (src/app.py): a Streamlit script that normalizes a multi-     *)
(* sheet workbook into one long grade table (read_workbook), filters it    *)
(* by student identity (gradebook_summary and the student portal),         *)
(* aggregates a course (compute_totals) and keeps the loaded table and the *)
(* teacher's access code in st.session_state across reruns of the script.  *)
(*                                                                         *)
(* Text is modelled as a sequence of one-character strings, a cell of a    *)
(* sheet as a tagged record (missing / text / number), a percentage as an  *)
(* exact rational (pandas computes it in floating point; the model keeps   *)
(* num/den and compares by cross multiplication).  pandas conversions are  *)
(* those of pandas 2.x: astype(str) turns a missing value into the text    *)
(* "nan" (NaN) or "<NA>" (pd.NA).                                          *)
(***************************************************************************)
EXTENDS Integers, Sequences, FiniteSets, TLC

VARIABLES
  \* st.session_state and the sidebar widgets, which Streamlit keeps per session
  grade_df, access_code_set, access_code, workbook,
  \* position in the script, the sidebar messages and the portal's output of this rerun
  pc, sidebar, portal,
  \* history: session state at the start of the running load block, and the
  \* workbook of the most recent successful upload or fetch action of the teacher
  snapshot, uploaded_now, last_loaded,
  \* read_workbook applied to a workbook
  file_bytes, read_result,
  \* compute_totals applied to a row set
  q, totals,
  \* canonical applied to a header under an alias map, and the frame of that column
  col, custom_map, canon, frame

vars == << grade_df, access_code_set, access_code, workbook, pc, sidebar, portal,
           snapshot, uploaded_now, last_loaded, file_bytes, read_result, q, totals,
           col, custom_map, canon, frame >>

-----------------------------------------------------------------------------
(* Text: str.strip, str.lower, equality                                      *)

UpperChars == << "A","B","C","D","E","F","G","H","I","J","K","L","M",
                 "N","O","P","Q","R","S","T","U","V","W","X","Y","Z" >>

LowerChars == << "a","b","c","d","e","f","g","h","i","j","k","l","m",
                 "n","o","p","q","r","s","t","u","v","w","x","y","z" >>

LowerChar(c) ==
  IF \E i \in 1..Len(UpperChars) : UpperChars[i] = c
    THEN LowerChars[CHOOSE i \in 1..Len(UpperChars) : UpperChars[i] = c]
    ELSE c

\* str.lower()
Lower(s) == [i \in 1..Len(s) |-> LowerChar(s[i])]

IsSpace(c) == c = " "

RECURSIVE LStrip(_)
LStrip(s) ==
  IF s = << >> THEN << >>
  ELSE IF IsSpace(Head(s)) THEN LStrip(Tail(s)) ELSE s

RECURSIVE RStrip(_)
RStrip(s) ==
  IF s = << >> THEN << >>
  ELSE IF IsSpace(s[Len(s)]) THEN RStrip(SubSeq(s, 1, Len(s) - 1)) ELSE s

\* str.strip()
Strip(s) == RStrip(LStrip(s))

\* Optional[str]
None == [none |-> TRUE, s |-> << >>]

Some(s) == [none |-> FALSE, s |-> s]

\* truthiness of an Optional[str]: None and "" are falsy
Truthy(o) == ~o.none /\ o.s # << >>

-----------------------------------------------------------------------------
(* DEFAULT_SYNONYMS, STANDARD_COLUMNS                                        *)

S_student_id == <<"s","t","u","d","e","n","t"," ","i","d">>
S_first_name == <<"f","i","r","s","t"," ","n","a","m","e">>
S_last_name == <<"l","a","s","t"," ","n","a","m","e">>
S_course == <<"c","o","u","r","s","e">>
S_term == <<"t","e","r","m">>
S_assessment == <<"a","s","s","e","s","s","m","e","n","t">>
S_score == <<"s","c","o","r","e">>
S_out_of == <<"o","u","t"," ","o","f">>
S_weight == <<"w","e","i","g","h","t">>
S_secret == <<"s","e","c","r","e","t">>

DEFAULT_SYNONYMS ==
  << [standard |-> S_student_id,
      syns |-> << <<"s","t","u","d","e","n","t"," ","i","d">>,
                  <<"i","d">>,
                  <<"s","i","d">>,
                  <<"s","t","u","d","e","n","t","_","n","u","m","b","e","r">>,
                  <<"s","t","u","d","e","n","t"," ","n","u","m">>,
                  <<"s","t","u","d","e","n","t","n","o">>,
                  <<"s","t","u","d","e","n","t","#">> >>],
     [standard |-> S_first_name,
      syns |-> << <<"f","i","r","s","t"," ","n","a","m","e">>,
                  <<"f","i","r","s","t">>,
                  <<"g","i","v","e","n">> >>],
     [standard |-> S_last_name,
      syns |-> << <<"l","a","s","t"," ","n","a","m","e">>,
                  <<"l","a","s","t">>,
                  <<"f","a","m","i","l","y">>,
                  <<"s","u","r","n","a","m","e">> >>],
     [standard |-> S_course,
      syns |-> << <<"c","o","u","r","s","e">>,
                  <<"c","l","a","s","s">>,
                  <<"s","e","c","t","i","o","n">> >>],
     [standard |-> S_term,
      syns |-> << <<"t","e","r","m">>,
                  <<"s","e","m","e","s","t","e","r">>,
                  <<"s","e","s","s","i","o","n">> >>],
     [standard |-> S_assessment,
      syns |-> << <<"a","s","s","e","s","s","m","e","n","t">>,
                  <<"a","s","s","i","g","n","m","e","n","t">>,
                  <<"q","u","i","z">>,
                  <<"t","e","s","t">>,
                  <<"t","a","s","k">>,
                  <<"n","a","m","e">> >>],
     [standard |-> S_score,
      syns |-> << <<"s","c","o","r","e">>,
                  <<"m","a","r","k">>,
                  <<"p","o","i","n","t","s">>,
                  <<"g","r","a","d","e">> >>],
     [standard |-> S_out_of,
      syns |-> << <<"o","u","t"," ","o","f">>,
                  <<"m","a","x">>,
                  <<"t","o","t","a","l">>,
                  <<"p","o","i","n","t","s"," ","p","o","s","s","i","b","l","e">>,
                  <<"d","e","n","o","m","i","n","a","t","o","r">> >>],
     [standard |-> S_weight,
      syns |-> << <<"w","e","i","g","h","t">>,
                  <<"w","e","i","g","h","t"," ","%">>,
                  <<"%">>,
                  <<"p","e","r","c","e","n","t">>,
                  <<"p","e","r","c","e","n","t","a","g","e">> >>],
     [standard |-> S_secret,
      syns |-> << <<"s","e","c","r","e","t">>,
                  <<"p","i","n">>,
                  <<"d","o","b","_","l","a","s","t","4">> >>] >>

STANDARD_COLUMNS ==
  << S_student_id, S_first_name, S_last_name, S_course, S_term,
     S_assessment, S_score, S_out_of, S_weight, S_secret >>

S_sheet == <<"_","s","h","e","e","t">>

S_aliases == <<"_","a","l","i","a","s","e","s">>

S_key == <<"k","e","y">>

S_value == <<"v","a","l","u","e">>

S_nan == <<"n","a","n">>

S_NA == <<"<","N","A",">">>

SeqToSet(s) == {s[i] : i \in 1..Len(s)}

-----------------------------------------------------------------------------
(* read_workbook.canonical                                                   *)

RECURSIVE ScanSynonyms(_, _)
ScanSynonyms(c, i) ==
  IF i > Len(DEFAULT_SYNONYMS) THEN None
  ELSE IF c = DEFAULT_SYNONYMS[i].standard \/ c \in SeqToSet(DEFAULT_SYNONYMS[i].syns)
    THEN Some(DEFAULT_SYNONYMS[i].standard)
    ELSE ScanSynonyms(c, i + 1)

canonical_noalias(header, cmap) == ScanSynonyms(Lower(Strip(header)), 1)

canonical(header, cmap) ==
  LET c == Lower(Strip(header))
  IN IF c \in DOMAIN cmap THEN Some(cmap[c]) ELSE ScanSynonyms(c, 1)

T_Quiz1 == <<"Q","u","i","z","1">>

T_Quiz2 == <<"Q","u","i","z","2">>

T_credentials == <<"c","r","e","d","e","n","t","i","a","l","s">>

T_Credentials == <<" ","C","r","e","d","e","n","t","i","a","l","s"," ">>

T_Aliases == <<"_","A","l","i","a","s","e","s">>

T_ID == <<"I","D">>

T_PIN == <<"P","I","N">>

T_Course == <<"C","o","u","r","s","e">>

T_Score == <<"S","c","o","r","e">>

T_Max == <<"M","a","x">>

T_Weight == <<"W","e","i","g","h","t">>

T_access_code == <<"a","c","c","e","s","s"," ","c","o","d","e">>

T_Key == <<"K","e","y">>

T_Value == <<"V","a","l","u","e">>

T_pin == <<"p","i","n">>

T_hue == <<"h","u","e">>

T_Hue == <<"H","u","e"," ">>

T_id == <<"i","d">>

T_id_padded == <<" ","I","d"," ">>

T_sid == <<"s","i","d">>

T_total == <<"t","o","t","a","l">>

T_foo == <<"f","o","o">>

T_max == <<"m","a","x">>

T_s1 == <<"s","1">>

T_S1_padded == <<" ","S","1">>

T_S2 == <<"S","2">>

T_s2 == <<"s","2">>

T_zz == <<"z","z">>

T_blank == <<" ">>

T_Math == <<"M","a","t","h">>

T_Art == <<"A","r","t">>

T_p == <<"p">>

T_q == <<"q">>

T_p_padded == <<"p"," ">>

T_abc == <<"a","b","c">>

T_a == <<"a">>

T_A == <<"A">>

T_a_padded == <<" ","a">>

T_url == <<"u">>

T_7 == <<"7">>

T_empty == << >>

-----------------------------------------------------------------------------
(* Cells of a decoded sheet and their pandas conversions                     *)

\* an empty cell of a column the sheet has (float NaN)
NaN == [k |-> "nan", s |-> << >>, n |-> 0]

\* a value of a column the sheet lacks (df[col] = pd.NA)
NA == [k |-> "NA", s |-> << >>, n |-> 0]

Txt(s) == [k |-> "str", s |-> s, n |-> 0]

Num(n) == [k |-> "num", s |-> << >>, n |-> n]

\* Series.isna()
IsNa(c) == c.k \in {"nan", "NA"}

\* Series.astype(str) on a text column: missing values become text
AsStr(c) ==
  CASE c.k = "nan" -> S_nan
    [] c.k = "NA" -> S_NA
    [] OTHER -> c.s

Digits == << "0","1","2","3","4","5","6","7","8","9" >>

IsDigit(ch) == \E d \in 1..Len(Digits) : Digits[d] = ch

DigitVal(ch) == (CHOOSE d \in 1..Len(Digits) : Digits[d] = ch) - 1

RECURSIVE ParseDigits(_, _)
ParseDigits(s, acc) ==
  IF s = << >> THEN acc ELSE ParseDigits(Tail(s), acc * Len(Digits) + DigitVal(Head(s)))

\* pd.to_numeric(errors="coerce"): numbers stay, digit text parses, the rest is NaN
ToNumeric(c) ==
  CASE c.k = "num" -> c
    [] c.k = "str" /\ c.s # << >> /\ (\A i \in 1..Len(c.s) : IsDigit(c.s[i]))
         -> Num(ParseDigits(c.s, 0))
    [] OTHER -> NaN

\* Series.fillna(v) on a numeric column
FillNa(c, v) == IF IsNa(c) THEN v ELSE c.n

-----------------------------------------------------------------------------
(* read_workbook                                                             *)

IsAliasName(name) == Lower(Strip(name)) = S_aliases

\* lines 59-65: the optional _aliases sheet; reading it by its exact name and
\* indexing its rows by the exact labels "key"/"value" raise when they are absent
ColIndex(columns, label) == CHOOSE i \in 1..Len(columns) : columns[i] = label

HasCol(columns, label) == \E i \in 1..Len(columns) : columns[i] = label

RECURSIVE BuildMap(_, _, _, _)
BuildMap(ali, i, ki, vi) ==
  IF i = 0 THEN << >>
  ELSE LET k == Lower(Strip(AsStr(ali.rows[i][ki])))
           v == Lower(Strip(AsStr(ali.rows[i][vi])))
       IN (v :> k) @@ BuildMap(ali, i - 1, ki, vi)

ReadAliases(sheets) ==
  IF ~\E i \in 1..Len(sheets) : IsAliasName(sheets[i].name)
    THEN [err |-> FALSE, map |-> << >>]
  ELSE IF ~\E i \in 1..Len(sheets) : sheets[i].name = S_aliases
    THEN [err |-> TRUE, map |-> << >>]
  ELSE LET ali == sheets[CHOOSE i \in 1..Len(sheets) : sheets[i].name = S_aliases]
           lowered == {Lower(Strip(ali.columns[j])) : j \in 1..Len(ali.columns)}
       IN IF ~({S_key, S_value} \subseteq lowered) \/ ali.rows = << >>
            THEN [err |-> FALSE, map |-> << >>]
          ELSE IF ~HasCol(ali.columns, S_key) \/ ~HasCol(ali.columns, S_value)
            THEN [err |-> TRUE, map |-> << >>]
          ELSE [err |-> FALSE,
                map |-> BuildMap(ali, Len(ali.rows), ColIndex(ali.columns, S_key),
                                 ColIndex(ali.columns, S_value))]

\* lines 84-90: df.rename(columns=colmap)
Renamed(columns, cmap) ==
  [i \in 1..Len(columns) |->
     LET can == canonical(columns[i], cmap)
     IN IF Truthy(can) THEN can.s ELSE columns[i]]

\* a column label that occurs twice makes df[label] a DataFrame, and the
\* .str / to_numeric calls of lines 98-103 raise on it
Duplicated(cols) ==
  \E i, j \in 1..Len(cols) : i < j /\ cols[i] = cols[j] /\ cols[i] \in SeqToSet(STANDARD_COLUMNS)

\* lines 92-94: the cell of a row under a label, pd.NA when the sheet lacks the column
CellOf(cols, row, label) ==
  IF HasCol(cols, label) THEN row[ColIndex(cols, label)] ELSE NA

\* lines 98-100: astype(str).str.strip()
StrField(c) == Txt(Strip(AsStr(c)))

\* lines 102-105: pd.to_numeric, and the default of `out of`
OutOfField(c) == IF IsNa(ToNumeric(c)) THEN Num(100) ELSE ToNumeric(c)

\* lines 96-108 for one row that survived dropna
NormRow(cols, row, name) ==
  [student_id |-> StrField(CellOf(cols, row, S_student_id)),
   first_name |-> StrField(CellOf(cols, row, S_first_name)),
   last_name  |-> StrField(CellOf(cols, row, S_last_name)),
   course     |-> StrField(CellOf(cols, row, S_course)),
   term       |-> StrField(CellOf(cols, row, S_term)),
   assessment |-> StrField(CellOf(cols, row, S_assessment)),
   score      |-> ToNumeric(CellOf(cols, row, S_score)),
   out_of     |-> OutOfField(CellOf(cols, row, S_out_of)),
   weight     |-> ToNumeric(CellOf(cols, row, S_weight)),
   secret     |-> StrField(CellOf(cols, row, S_secret)),
   sheet      |-> name]

\* line 96: df.dropna(subset=["student id"])
KeepRow(cols, row) == ~IsNa(CellOf(cols, row, S_student_id))

RECURSIVE NormRows(_, _, _, _)
NormRows(cols, rows, name, i) ==
  IF i > Len(rows) THEN << >>
  ELSE (IF KeepRow(cols, rows[i]) THEN << NormRow(cols, rows[i], name) >> ELSE << >>)
       \o NormRows(cols, rows, name, i + 1)

\* lines 83-108: one sheet to its frame
ReadSheet(sheet, cmap) ==
  LET cols == Renamed(sheet.columns, cmap)
  IN IF Duplicated(cols) THEN [err |-> TRUE, rows |-> << >>]
     ELSE [err |-> FALSE, rows |-> NormRows(cols, sheet.rows, sheet.name, 1)]

\* line 81: every sheet but _aliases is read as a grade sheet
IsGradeSheet(sheet) == ~IsAliasName(sheet.name)

RECURSIVE Frames(_, _, _)
Frames(sheets, cmap, i) ==
  IF i > Len(sheets) THEN [err |-> FALSE, df |-> << >>, names |-> << >>]
  ELSE LET rest == Frames(sheets, cmap, i + 1)
       IN IF ~IsGradeSheet(sheets[i]) THEN rest
          ELSE LET f == ReadSheet(sheets[i], cmap)
               IN [err |-> f.err \/ rest.err,
                   df |-> f.rows \o rest.df,
                   names |-> << sheets[i].name >> \o rest.names]

Raised == [err |-> TRUE, df |-> << >>, names |-> << >>]

read_workbook(file) ==
  IF ~file.ok THEN Raised
  ELSE LET ali == ReadAliases(file.sheets)
       IN IF ali.err THEN Raised
          ELSE LET r == Frames(file.sheets, ali.map, 1)
               IN IF r.err THEN Raised ELSE r

-----------------------------------------------------------------------------
(* gradebook_summary                                                         *)

\* df[mask]: the rows whose entry of the boolean mask is true, in order
RECURSIVE Masked(_, _, _)
Masked(rows, mask, i) ==
  IF i > Len(rows) THEN << >>
  ELSE (IF mask[i] THEN << rows[i] >> ELSE << >>) \o Masked(rows, mask, i + 1)

\* Series.str.lower() == text: a missing value compares unequal
StrLowerEq(c, text) == c.k = "str" /\ Lower(c.s) = text

\* lines 121 and 245: (secret.astype(str).str.strip() == supplied.strip()) | secret.isna()
SecretKeeps(r, secret) == Strip(AsStr(r.secret)) = Strip(secret) \/ IsNa(r.secret)

gradebook_summary(df, sid, secret, course) ==
  LET q1 == Masked(df, [i \in 1..Len(df) |-> StrLowerEq(df[i].student_id, Lower(sid))], 1)
      q2 == IF Truthy(secret)
              THEN Masked(q1, [i \in 1..Len(q1) |-> SecretKeeps(q1[i], secret.s)], 1)
              ELSE q1
  IN IF Truthy(course)
       THEN Masked(q2, [i \in 1..Len(q2) |-> StrLowerEq(q2[i].course, Lower(course.s))], 1)
       ELSE q2

-----------------------------------------------------------------------------
(* compute_totals: percentages are exact rationals num/den, or NaN            *)

NaNPct == [nan |-> TRUE, num |-> 0, den |-> 1]

Rat(n, d) == [nan |-> FALSE, num |-> n, den |-> d]

RatAdd(a, b) == Rat(a.num * b.den + b.num * a.den, a.den * b.den)

\* equality of two results: both NaN, or the same rational
SamePct(a, b) ==
  IF a.nan \/ b.nan THEN a.nan /\ b.nan ELSE a.num * b.den = b.num * a.den

\* Series.sum()
RECURSIVE SumOf(_, _)
SumOf(series, i) ==
  IF i > Len(series) THEN 0 ELSE series[i] + SumOf(series, i + 1)

\* q["score"].fillna(0), q["out of"].fillna(100), q["weight"].fillna(0)
ScoreOr0(rows) == [i \in 1..Len(rows) |-> FillNa(rows[i].score, 0)]

OutOfFilled(rows) == [i \in 1..Len(rows) |-> FillNa(rows[i].out_of, 100)]

WeightOr0(rows) == [i \in 1..Len(rows) |-> FillNa(rows[i].weight, 0)]

\* q["out of"].replace(0, pd.NA).fillna(100)
OutOfOr100(r) == IF IsNa(r.out_of) \/ r.out_of.n = 0 THEN 100 ELSE r.out_of.n

\* lines 136 and 141-142: sum(score) / sum(out of) * 100, NaN on a zero sum
PointsPct(rows) ==
  LET denom == SumOf(OutOfFilled(rows), 1)
  IN IF denom # 0 THEN Rat(SumOf(ScoreOr0(rows), 1) * 100, denom) ELSE NaNPct

RECURSIVE ContribSum(_, _)
ContribSum(rows, i) ==
  IF i > Len(rows) THEN Rat(0, 1)
  ELSE RatAdd(Rat(FillNa(rows[i].score, 0) * FillNa(rows[i].weight, 0), OutOfOr100(rows[i])),
              ContribSum(rows, i + 1))

\* lines 138-139: sum(score / out of * w) / sum(w) * 100
WeightedPct(rows) ==
  LET c == ContribSum(rows, 1)
  IN Rat(c.num * 100, c.den * SumOf(WeightOr0(rows), 1))

\* lines 144-156: the detail table with its Percent column
Details(rows) ==
  [i \in 1..Len(rows) |->
     [Assessment |-> rows[i].assessment, Score |-> rows[i].score,
      OutOf |-> rows[i].out_of,
      Percent |-> Rat(FillNa(rows[i].score, 0) * 100, OutOfOr100(rows[i])),
      Weight |-> rows[i].weight, Course |-> rows[i].course,
      Term |-> rows[i].term, Sheet |-> rows[i].sheet]]

compute_totals_nofallback(rows) ==
  IF rows = << >> THEN [details |-> rows, overall |-> NaNPct]
  ELSE [details |-> Details(rows),
        overall |-> IF \E i \in 1..Len(rows) : ~IsNa(rows[i].weight)
                      THEN IF SumOf(WeightOr0(rows), 1) = 0 THEN NaNPct ELSE WeightedPct(rows)
                      ELSE PointsPct(rows)]

compute_totals(rows) ==
  IF rows = << >> THEN [details |-> rows, overall |-> NaNPct]
  ELSE [details |-> Details(rows),
        overall |-> IF \E i \in 1..Len(rows) : ~IsNa(rows[i].weight)
                      THEN IF SumOf(WeightOr0(rows), 1) = 0 THEN PointsPct(rows)
                           ELSE WeightedPct(rows)
                      ELSE PointsPct(rows)]

-----------------------------------------------------------------------------
(* Student portal, lines 232-255                                             *)

\* code points order the characters, as sorted() compares text
Ascii == << " ", "#", "%", "0","1","2","3","4","5","6","7","8","9", "<", ">",
            "A","B","C","D","E","F","G","H","I","J","K","L","M",
            "N","O","P","Q","R","S","T","U","V","W","X","Y","Z", "_",
            "a","b","c","d","e","f","g","h","i","j","k","l","m",
            "n","o","p","q","r","s","t","u","v","w","x","y","z" >>

Ord(ch) == CHOOSE i \in 1..Len(Ascii) : Ascii[i] = ch

RECURSIVE StrLeq(_, _)
StrLeq(a, b) ==
  IF a = << >> THEN TRUE
  ELSE IF b = << >> THEN FALSE
  ELSE IF Head(a) = Head(b) THEN StrLeq(Tail(a), Tail(b))
  ELSE Ord(Head(a)) < Ord(Head(b))

\* line 243 (and 245): the identity match of the portal
SidRows(df, sid, secret) ==
  LET rows == Masked(df, [i \in 1..Len(df) |->
                            Lower(AsStr(df[i].student_id)) = Lower(Strip(sid))], 1)
  IN IF secret # << >>
       THEN Masked(rows, [i \in 1..Len(rows) |-> SecretKeeps(rows[i], secret)], 1)
       ELSE rows

\* line 249: the course options
Courses(rows) ==
  {rows[i].course.s : i \in {j \in 1..Len(rows) :
       ~IsNa(rows[j].course) /\ Strip(AsStr(rows[j].course)) # << >>}}

\* line 250: a selectbox created in this run returns its first option, None without options
CourseChoice(rows) ==
  IF Courses(rows) = {} THEN None
  ELSE Some(CHOOSE c \in Courses(rows) : \A d \in Courses(rows) : StrLeq(c, d))

NoOutput == [kind |-> "none", user_code |-> << >>, sid |-> << >>, secret |-> << >>,
             sid_rows |-> << >>, course_choice |-> None, q |-> << >>,
             details |-> << >>, overall |-> NaNPct]

Message(kind, user_code, sid, secret) ==
  [NoOutput EXCEPT !.kind = kind, !.user_code = user_code, !.sid = sid, !.secret = secret]

\* lines 246-255, behind the gate
Lookup(df, user_code, sid, secret) ==
  LET sid_rows == SidRows(df, sid, secret)
      choice == CourseChoice(sid_rows)
      rows == gradebook_summary(df, sid, IF secret # << >> THEN Some(secret) ELSE None, choice)
      t == compute_totals(rows)
  IN IF sid_rows = << >> THEN Message("warning_no_records", user_code, sid, secret)
     ELSE [kind |-> "grades", user_code |-> user_code, sid |-> sid, secret |-> secret,
           sid_rows |-> sid_rows, course_choice |-> choice, q |-> rows,
           details |-> t.details, overall |-> t.overall]

ShowMyGrades_nocheck(df, code_set, user_code, sid, secret) ==
  IF df.none THEN Message("error_no_gradebook", user_code, sid, secret)
  ELSE IF code_set.none \/ Strip(user_code) # code_set.s
    THEN Message("error_incorrect", user_code, sid, secret)
  ELSE Lookup(df.rows, user_code, sid, secret)

\* lines 233-241: the access-code gate
ShowMyGrades(df, code_set, user_code, sid, secret) ==
  IF df.none THEN Message("error_no_gradebook", user_code, sid, secret)
  ELSE IF ~Truthy(code_set) THEN Message("error_not_configured", user_code, sid, secret)
  ELSE IF Strip(user_code) # code_set.s
    THEN Message("error_incorrect", user_code, sid, secret)
  ELSE Lookup(df.rows, user_code, sid, secret)

-----------------------------------------------------------------------------
(* The script's load blocks, lines 186-212                                   *)

NoTable == [none |-> TRUE, rows |-> << >>]

Table(rows) == [none |-> FALSE, rows |-> rows]

NoFile == [present |-> FALSE, file |-> [ok |-> FALSE, sheets |-> << >>]]

File(f) == [present |-> TRUE, file |-> f]

\* lines 192-193 and 209-210: the two session_state assignments of a successful load
Loaded(r, code) ==
  [grade_df |-> Table(r.df),
   access_code_set |-> IF code # << >> THEN Some(Strip(code)) ELSE None]

\* lines 186-195: the state the upload block leaves
UploadState(s, wb, code) ==
  IF ~wb.present THEN s
  ELSE LET r == read_workbook(wb.file)
       IN IF r.err THEN s ELSE Loaded(r, code)

UploadMessage(wb) ==
  IF ~wb.present THEN "none"
  ELSE IF read_workbook(wb.file).err THEN "error" ELSE "success"

\* lines 197-212: the outcome of the fetch block; the response is the exception
\* requests.get raised (a timeout included) or a status with the body
FetchMessage(fetch_btn, cloud_url, resp) ==
  IF ~(fetch_btn /\ cloud_url # << >>) THEN "none"
  ELSE IF resp.raised THEN "error_exception"
  ELSE IF resp.status_code # 200 THEN "error_http"
  ELSE IF read_workbook(resp.content).err THEN "error_exception"
  ELSE "success"

FetchState_clears(s, fetch_btn, cloud_url, resp, code) ==
  IF FetchMessage(fetch_btn, cloud_url, resp) = "success"
    THEN Loaded(read_workbook(resp.content), code)
  ELSE IF FetchMessage(fetch_btn, cloud_url, resp) = "none" THEN s
  ELSE [grade_df |-> NoTable, access_code_set |-> None]

FetchState(s, fetch_btn, cloud_url, resp, code) ==
  IF FetchMessage(fetch_btn, cloud_url, resp) = "success"
    THEN Loaded(read_workbook(resp.content), code)
    ELSE s

-----------------------------------------------------------------------------
(* Workbooks, texts and rows the specifications draw their inputs from.       *)
(* Text columns (ids, names, courses, secrets, alias keys and values) hold   *)
(* text cells or empty cells; numeric columns hold numbers, digit text or    *)
(* empty cells.  Column headers of a sheet are distinct, as pandas makes     *)
(* them when it reads a sheet.                                               *)

MaxSheets == 2

MaxRows == 2

RECURSIVE SeqsUpTo(_, _)
SeqsUpTo(S, n) ==
  IF n = 0 THEN {<< >>}
  ELSE LET shorter == SeqsUpTo(S, n - 1)
       IN shorter \cup {Append(s, x) : s \in {t \in shorter : Len(t) = n - 1}, x \in S}

Sheet(name, columns, rows) == [name |-> name, columns |-> columns, rows |-> rows]

Workbook(sheets) == [ok |-> TRUE, sheets |-> sheets]

\* bytes pd.ExcelFile cannot decode
BadBytes == [ok |-> FALSE, sheets |-> << >>]

QuizColumns == << T_ID, T_Course, T_Score, T_Max, T_Weight, T_PIN >>

WorkbookA ==
  Workbook(<< Sheet(T_Quiz1, QuizColumns,
                << << Txt(T_s1), Txt(T_Math), Num(8), Num(10), NaN, Txt(T_p) >>,
                   << Txt(T_s1), Txt(T_Math), Num(18), Num(20), NaN, NaN >>,
                   << Txt(T_S2), Txt(T_Art), Num(5), Num(0), NaN, Txt(T_q) >> >>) >>)

WorkbookB ==
  Workbook(<< Sheet(T_credentials, << S_student_id, T_access_code >>,
                << << Txt(T_s1), Txt(T_abc) >> >>),
              Sheet(T_Quiz2, QuizColumns,
                << << Txt(T_s1), Txt(T_Math), Num(9), Num(10), Num(30), NaN >>,
                   << Txt(T_s1), Txt(T_Art), Num(5), Num(10), Num(0), NaN >>,
                   << NaN, Txt(T_Art), Num(1), Num(10), NaN, NaN >> >>) >>)

Files == {WorkbookA, WorkbookB, BadBytes}

Codes == {T_empty, T_blank, T_a, T_A, T_a_padded}

Sids == {T_s1, T_S1_padded, T_s2, T_zz}

Secrets == {T_empty, T_p, T_q, T_p_padded}

Urls == {T_empty, T_url}

Responses ==
  {[raised |-> TRUE, status_code |-> 0, content |-> BadBytes]}
  \cup {[raised |-> FALSE, status_code |-> 404, content |-> BadBytes]}
  \cup {[raised |-> FALSE, status_code |-> 200, content |-> f] : f \in Files}

\* generated workbooks for read_workbook
GradeSheetNames == {T_Quiz1, T_credentials, T_Credentials}

IdCells == {NaN, Txt(T_s1), Txt(T_blank)}

SecretCells == {NaN, Txt(T_p), Txt(T_q)}

GradeSheetBodies ==
  {[columns |-> << T_ID, T_PIN >>, rows |-> rs] :
      rs \in {<< >>} \cup {<< << i, s >> >> : i \in IdCells, s \in SecretCells}}
  \cup {[columns |-> << T_Course, T_Score >>, rows |-> << << Txt(T_Math), Num(8) >> >>]}

AliasSheets ==
  {Sheet(n, c, rs) :
     n \in {S_aliases, T_Aliases},
     c \in {<< S_key, S_value >>, << T_Key, T_Value >>},
     rs \in {<< >>, << << Txt(S_secret), Txt(T_pin) >> >>,
             << << Txt(S_student_id), Txt(T_pin) >> >>}}

SheetUniverse ==
  {Sheet(n, b.columns, b.rows) : n \in GradeSheetNames, b \in GradeSheetBodies}
  \cup AliasSheets

\* a workbook's sheet names are distinct
DistinctNames(sheets) ==
  \A i, j \in 1..Len(sheets) : i # j => Lower(sheets[i].name) # Lower(sheets[j].name)

\* undecodable bytes, and the workbooks of one to n sheets
Workbooks(n) ==
  {BadBytes} \cup
  {Workbook(ss) : ss \in {s \in SeqsUpTo(SheetUniverse, n) :
                            s # << >> /\ DistinctNames(s)}}

\* rows as compute_totals receives them: `out of` is never missing after read_workbook
TotalsRow(score, out_of, weight) ==
  [student_id |-> Txt(T_s1), first_name |-> Txt(S_NA), last_name |-> Txt(S_NA),
   course |-> Txt(T_Math), term |-> Txt(S_NA), assessment |-> Txt(S_NA),
   score |-> score, out_of |-> out_of, weight |-> weight,
   secret |-> Txt(S_NA), sheet |-> T_Quiz1]

TotalsRows ==
  {TotalsRow(s, o, w) : s \in {NaN, Num(0), Num(8), Num(18)},
                        o \in {Num(0), Num(10), Num(20)},
                        w \in {NaN, Num(0), Num(30), Num(-30)}}

\* the row sets of at most n rows
RowSets(n) == SeqsUpTo(TotalsRows, n)

Headers == {T_ID, T_id_padded, T_sid, T_Max, T_total, T_hue, T_Hue, S_score, T_foo, S_sheet}

AliasKeys == {T_id, T_max, T_hue}

AliasValues == {S_secret, S_score, T_foo, T_empty}

AliasMaps == UNION {[D -> AliasValues] : D \in SUBSET AliasKeys}

\* the sheet whose second column is headed `header`
ColumnSheet(header) ==
  Sheet(T_Quiz1, << S_student_id, header >>, << << Txt(T_s1), Txt(T_7) >> >>)

-----------------------------------------------------------------------------
(* Results of the functions before they are applied                          *)

NotRead == [done |-> FALSE, err |-> FALSE, df |-> << >>, names |-> << >>]

NotComputed == [done |-> FALSE, details |-> << >>, overall |-> NaNPct]

NotApplied == [done |-> FALSE, value |-> None]

NoFrame == [done |-> FALSE, err |-> FALSE, rows |-> << >>]

NoSession == [grade_df |-> NoTable, access_code_set |-> None]

Session == [grade_df |-> grade_df, access_code_set |-> access_code_set]

InitSession ==
  /\ grade_df = NoTable /\ access_code_set = None
  /\ access_code = << >> /\ workbook = NoFile
  /\ pc = "idle"
  /\ sidebar = [upload |-> "none", fetch |-> "none"]
  /\ portal = NoOutput
  /\ snapshot = NoSession /\ uploaded_now = FALSE /\ last_loaded = NoFile

InitRead == file_bytes = BadBytes /\ read_result = NotRead

InitTotals == q = << >> /\ totals = NotComputed

InitCanon == col = << >> /\ custom_map = << >> /\ canon = NotApplied /\ frame = NoFrame

sessionvars == << grade_df, access_code_set, access_code, workbook, pc, sidebar, portal,
                  snapshot, uploaded_now, last_loaded >>

readvars == << file_bytes, read_result >>

totalsvars == << q, totals >>

canonvars == << col, custom_map, canon, frame >>

-----------------------------------------------------------------------------
(* The session: every interaction reruns the script top to bottom            *)

\* lines 180-184: a rerun starts with the sidebar widgets' values; the uploader
\* keeps its file until the teacher replaces or removes it
Rerun ==
  /\ pc = "idle"
  /\ \E code \in Codes, pick \in {File(f) : f \in Files} \cup {NoFile, workbook},
        new \in BOOLEAN :
       /\ (~new) => pick \in {NoFile, workbook}
       /\ new => pick.present
       /\ access_code' = code
       /\ workbook' = pick
       /\ uploaded_now' = new
  /\ pc' = "upload"
  /\ sidebar' = [upload |-> "none", fetch |-> "none"]
  /\ portal' = NoOutput
  /\ UNCHANGED << grade_df, access_code_set, snapshot, last_loaded >>
  /\ UNCHANGED << readvars, totalsvars, canonvars >>

\* lines 186-195
UploadBlock ==
  /\ pc = "upload"
  /\ snapshot' = Session
  /\ grade_df' = UploadState(Session, workbook, access_code).grade_df
  /\ access_code_set' = UploadState(Session, workbook, access_code).access_code_set
  /\ sidebar' = [sidebar EXCEPT !.upload = UploadMessage(workbook)]
  /\ last_loaded' = IF UploadMessage(workbook) = "success" /\ uploaded_now
                      THEN workbook ELSE last_loaded
  /\ pc' = "fetch"
  /\ UNCHANGED << access_code, workbook, portal, uploaded_now >>
  /\ UNCHANGED << readvars, totalsvars, canonvars >>

\* lines 197-212
FetchBlock ==
  /\ pc = "fetch"
  /\ \E fetch_btn \in BOOLEAN, cloud_url \in Urls, resp \in Responses :
       /\ snapshot' = Session
       /\ grade_df' = FetchState(Session, fetch_btn, cloud_url, resp, access_code).grade_df
       /\ access_code_set' =
            FetchState(Session, fetch_btn, cloud_url, resp, access_code).access_code_set
       /\ sidebar' = [sidebar EXCEPT !.fetch = FetchMessage(fetch_btn, cloud_url, resp)]
       /\ last_loaded' = IF FetchMessage(fetch_btn, cloud_url, resp) = "success"
                           THEN File(resp.content) ELSE last_loaded
  /\ pc' = "portal"
  /\ UNCHANGED << access_code, workbook, portal, uploaded_now >>
  /\ UNCHANGED << readvars, totalsvars, canonvars >>

\* lines 223-255
PortalBlock ==
  /\ pc = "portal"
  /\ \E proceed \in BOOLEAN, user_code \in Codes, sid \in Sids, secret \in Secrets :
       portal' = IF proceed
                   THEN ShowMyGrades(grade_df, access_code_set, user_code, sid, secret)
                   ELSE NoOutput
  /\ pc' = "idle"
  /\ UNCHANGED << grade_df, access_code_set, access_code, workbook, sidebar,
                  snapshot, uploaded_now, last_loaded >>
  /\ UNCHANGED << readvars, totalsvars, canonvars >>

Init == InitSession /\ InitRead /\ InitTotals /\ InitCanon

Next == Rerun \/ UploadBlock \/ FetchBlock \/ PortalBlock

Spec == Init /\ [][Next]_vars

-----------------------------------------------------------------------------
(* read_workbook applied to every workbook of the universe                   *)

ReadInit ==
  /\ InitSession /\ InitTotals /\ InitCanon
  /\ file_bytes \in Workbooks(MaxSheets)
  /\ read_result = NotRead

ReadWorkbook ==
  /\ ~read_result.done
  /\ read_result' = [done |-> TRUE, err |-> read_workbook(file_bytes).err,
                     df |-> read_workbook(file_bytes).df,
                     names |-> read_workbook(file_bytes).names]
  /\ UNCHANGED << file_bytes, sessionvars, totalsvars, canonvars >>

SpecRead == ReadInit /\ [][ReadWorkbook]_vars

-----------------------------------------------------------------------------
(* compute_totals applied to every row set of the universe                   *)

TotalsInit ==
  /\ InitSession /\ InitRead /\ InitCanon
  /\ q \in RowSets(MaxRows)
  /\ totals = NotComputed

ComputeTotals ==
  /\ ~totals.done
  /\ totals' = [done |-> TRUE, details |-> compute_totals(q).details,
                overall |-> compute_totals(q).overall]
  /\ UNCHANGED << q, sessionvars, readvars, canonvars >>

SpecTotals == TotalsInit /\ [][ComputeTotals]_vars

-----------------------------------------------------------------------------
(* canonical applied to every header and alias map of the universe           *)

CanonInit ==
  /\ InitSession /\ InitRead /\ InitTotals
  /\ col \in Headers
  /\ custom_map \in AliasMaps
  /\ canon = NotApplied
  /\ frame = NoFrame

Canonical ==
  /\ ~canon.done
  /\ canon' = [done |-> TRUE, value |-> canonical(col, custom_map)]
  /\ UNCHANGED << col, custom_map, frame, sessionvars, readvars, totalsvars >>

ReadColumn ==
  /\ ~frame.done
  /\ frame' = [done |-> TRUE, err |-> ReadSheet(ColumnSheet(col), custom_map).err,
               rows |-> ReadSheet(ColumnSheet(col), custom_map).rows]
  /\ UNCHANGED << col, custom_map, canon, sessionvars, readvars, totalsvars >>

NextCanon == Canonical \/ ReadColumn

SpecCanon == CanonInit /\ [][NextCanon]_vars

-----------------------------------------------------------------------------
(* Properties                                                                *)

LoadErrors == {"error_http", "error_exception"}

\* C1: a load block that fails (the upload block on bytes read_workbook cannot
\* read; the fetch block on a non-200 status, a raised or timed-out request, or
\* fetched bytes read_workbook cannot read) leaves session_state's grade_df and
\* access_code_set exactly as they were when the block started, and the lookup
\* that follows in the run answers from that earlier snapshot.
C1_FailedLoadKeepsState ==
  /\ (pc = "fetch" /\ sidebar.upload = "error") => Session = snapshot
  /\ (pc \in {"portal", "idle"} /\ sidebar.fetch \in LoadErrors) => Session = snapshot
  /\ (pc = "idle" /\ portal.kind # "none" /\ sidebar.fetch \in LoadErrors) =>
       portal = ShowMyGrades(snapshot.grade_df, snapshot.access_code_set,
                             portal.user_code, portal.sid, portal.secret)

C1_Witness ==
  /\ pc = "idle" /\ sidebar.fetch = "error_http"
  /\ ~snapshot.grade_df.none
  /\ portal.kind = "grades"

GatePasses ==
  /\ ~grade_df.none
  /\ ~access_code_set.none /\ access_code_set.s # << >>
  /\ Strip(portal.user_code) = access_code_set.s

ProducesData(p) ==
  \/ p.kind = "grades" \/ p.sid_rows # << >> \/ p.q # << >>
  \/ p.details # << >> \/ ~p.overall.nan

\* C2: a 'Show my grades' request produces grade rows or an overall percent only
\* if a grade table is cached, the stored access code is non-empty and trimmed,
\* and the supplied code, trimmed, equals it character for character; every
\* other request ends in one of the three error messages with no grade data.
C2_AccessCodeGate ==
  /\ ~access_code_set.none => access_code_set.s = Strip(access_code_set.s)
  /\ (pc = "idle" /\ portal.kind # "none") =>
       /\ ProducesData(portal) => GatePasses
       /\ ~GatePasses =>
            /\ portal.kind \in {"error_no_gradebook", "error_not_configured", "error_incorrect"}
            /\ ~ProducesData(portal)

C2_Witness ==
  /\ pc = "idle" /\ portal.kind = "grades"
  /\ portal.user_code # access_code_set.s
  /\ portal.q # << >>

\* C3: the table a lookup reads is the complete normalized table of the workbook
\* of the most recent successful upload or fetch action; after a successful
\* cloud fetch, lookups read the fetched workbook until a new upload or fetch
\* succeeds.
C3_LookupReadsLastLoad ==
  (pc = "idle" /\ portal.kind # "none" /\ ~grade_df.none) =>
     /\ last_loaded.present
     /\ grade_df.rows = read_workbook(last_loaded.file).df

SameCourse(r, choice) == choice.none \/ StrLowerEq(r.course, Lower(choice.s))

\* C10: behind the gate, the rows gradebook_summary hands to compute_totals are
\* exactly the portal's identity-matched rows restricted to the picked course,
\* so they are non-empty whenever the identity match is non-empty and a course
\* is picked.
C10_LookupConsistency ==
  (pc = "idle" /\ portal.kind = "grades") =>
     /\ portal.q = Masked(portal.sid_rows,
                           [i \in 1..Len(portal.sid_rows) |->
                              SameCourse(portal.sid_rows[i], portal.course_choice)], 1)
     /\ (portal.sid_rows # << >> /\ ~portal.course_choice.none) => portal.q # << >>

\* the raw rows of the grade sheets of the workbook that survive dropna
KeptRows ==
  UNION {{<< i, j >> : j \in {k \in 1..Len(file_bytes.sheets[i].rows) :
              KeepRow(Renamed(file_bytes.sheets[i].columns,
                              ReadAliases(file_bytes.sheets).map),
                      file_bytes.sheets[i].rows[k])}} :
           i \in {s \in 1..Len(file_bytes.sheets) : IsGradeSheet(file_bytes.sheets[s])}}

\* C4: for every non-empty supplied secret, a row whose secret cell was empty or
\* missing in the workbook is kept by the secret filter of gradebook_summary and
\* of the portal, and a row whose secret is non-empty and differs after trimming
\* is excluded.
C4_SecretFilterAdditive ==
  (read_result.done /\ ~read_result.err) =>
    \A p \in KeptRows : \A secret \in Secrets \ {T_empty} :
      LET sh == file_bytes.sheets[p[1]]
          cols == Renamed(sh.columns, ReadAliases(file_bytes.sheets).map)
          cell == CellOf(cols, sh.rows[p[2]], S_secret)
          r == NormRow(cols, sh.rows[p[2]], sh.name)
          in_summary == r \in SeqToSet(gradebook_summary(read_result.df, r.student_id.s,
                                                         Some(secret), None))
          in_portal == r \in SeqToSet(SidRows(read_result.df, r.student_id.s, secret))
      IN /\ IsNa(cell) => in_summary /\ in_portal
         /\ (~IsNa(cell) /\ Strip(cell.s) # << >> /\ Strip(cell.s) # Strip(secret)) =>
              ~in_summary /\ ~in_portal

IsCredentialsName(name) == Lower(Strip(name)) = T_credentials

\* C7: a sheet named `credentials` (any case, surrounding whitespace) is the
\* credentials sheet and not a grade sheet: its name is not among the grade-sheet
\* names read_workbook returns and none of its rows is in the grade table.
C7_CredentialsExclusive ==
  (read_result.done /\ ~read_result.err) =>
    \A i \in 1..Len(file_bytes.sheets) :
      IsCredentialsName(file_bytes.sheets[i].name) =>
        /\ file_bytes.sheets[i].name \notin SeqToSet(read_result.names)
        /\ \A k \in 1..Len(read_result.df) :
             read_result.df[k].sheet # file_bytes.sheets[i].name

\* C8: every row of the table read_workbook returns has a student id that is
\* non-empty after trimming, and a sheet with no column that canonicalizes to
\* `student id` contributes no rows.
C8_StudentIdNonEmpty ==
  (read_result.done /\ ~read_result.err) =>
    /\ \A k \in 1..Len(read_result.df) : Strip(read_result.df[k].student_id.s) # << >>
    /\ \A i \in 1..Len(file_bytes.sheets) :
         ~HasCol(Renamed(file_bytes.sheets[i].columns, ReadAliases(file_bytes.sheets).map),
                 S_student_id) =>
           \A k \in 1..Len(read_result.df) :
             read_result.df[k].sheet # file_bytes.sheets[i].name

ZeroAs100(rows) ==
  [i \in 1..Len(rows) |->
     IF ~IsNa(rows[i].out_of) /\ rows[i].out_of.n = 0
       THEN [rows[i] EXCEPT !.out_of = Num(100)] ELSE rows[i]]

\* C5: a zero `out of` counts as 100 in the weighted and in the points formula:
\* the overall percent of a non-empty row set equals the overall percent of the
\* same rows with every out of = 0 replaced by 100.
C5_ZeroOutOfIs100 ==
  (totals.done /\ q # << >>) =>
     SamePct(totals.overall, compute_totals(ZeroAs100(q)).overall)

WithoutWeights(rows) == [i \in 1..Len(rows) |-> [rows[i] EXCEPT !.weight = NaN]]

ZeroTotalWeight(rows) ==
  /\ rows # << >>
  /\ \E i \in 1..Len(rows) : ~IsNa(rows[i].weight)
  /\ SumOf([i \in 1..Len(rows) |-> FillNa(rows[i].weight, 0)], 1) = 0

\* C6: when some weight is present and the weights (missing as 0) sum to 0, the
\* overall percent is that of the same rows without weights, i.e.
\* sum(score or 0) / sum(out of) * 100, and NaN only when that sum of out of is 0.
C6_ZeroWeightFallback ==
  (totals.done /\ ZeroTotalWeight(q)) =>
     LET scores == SumOf([i \in 1..Len(q) |-> FillNa(q[i].score, 0)], 1)
         outs == SumOf([i \in 1..Len(q) |-> q[i].out_of.n], 1)
     IN /\ SamePct(totals.overall, compute_totals(WithoutWeights(q)).overall)
        /\ totals.overall.nan <=> outs = 0
        /\ outs # 0 => totals.overall.num * outs = scores * 100 * totals.overall.den

C6_Witness ==
  /\ totals.done /\ Len(q) = MaxRows
  /\ \A i \in 1..Len(q) : q[i].weight = Num(0)
  /\ ~totals.overall.nan /\ totals.overall.num # 0

IsSynonym(c, i) ==
  c = DEFAULT_SYNONYMS[i].standard \/ c \in SeqToSet(DEFAULT_SYNONYMS[i].syns)

\* C9: canonical lowercases and trims the header; a header that is a key of the
\* alias map yields the alias-mapped name even when it is a built-in synonym of
\* another field; otherwise a built-in synonym of a field yields that field; a
\* header matching neither yields None and its column leaves the frame as it is
\* without the column.
C9_Canonicalization ==
  LET c == Lower(Strip(col))
      fields == 1..Len(DEFAULT_SYNONYMS)
      unmatched == c \notin DOMAIN custom_map /\ ~\E i \in fields : IsSynonym(c, i)
  IN /\ canon.done =>
          /\ c \in DOMAIN custom_map => canon.value = Some(custom_map[c])
          /\ c \notin DOMAIN custom_map =>
               \A i \in fields :
                 IsSynonym(c, i) => canon.value = Some(DEFAULT_SYNONYMS[i].standard)
          /\ unmatched => canon.value = None
     /\ (frame.done /\ unmatched) =>
          /\ ~frame.err
          /\ frame.rows = << NormRow(<< S_student_id >>, << Txt(T_s1) >>, T_Quiz1) >>

C9_Witness ==
  /\ canon.done /\ frame.done
  /\ col = T_id_padded
  /\ T_id \in DOMAIN custom_map /\ custom_map[T_id] = S_secret
  /\ frame.rows # << >> /\ frame.rows[1].secret = Txt(T_7)

====
